---- MODULE Spec2Model ----
(***************************************************************************)
(* State-machine model of main.py: the aircraft polling loop               *)
(* (check_aircraft_states), the alert fanout (send_alert_to_guilds), the   *)
(* start of the loop (on_ready) and the two slash commands (setchannel,    *)
(* getchannel).                                                            *)
(*                                                                         *)
(* The program runs on one asyncio event loop.  A coroutine is modelled as *)
(* a sequence of steps; another coroutine can only run while the polling   *)
(* cycle is suspended at an await (pc = "sending", the await of line 217)  *)
(* or asleep between two ticks (pc = "idle").  requests.post/get block the *)
(* event loop, so the fetch of lines 92-113 is part of the tick step.      *)
(* The steps of a cycle between two awaits are separate actions, but no    *)
(* other action is enabled between them.                                   *)
(*                                                                         *)
(* discord.ext.tasks is not part of the repository.  What the model takes  *)
(* from it: the decorated coroutine is run once per period, never two runs *)
(* at a time; an exception that leaves the coroutine (other than the       *)
(* connection errors the library retries) ends the loop's task, after      *)
(* which is_running() is false.                                            *)
(***************************************************************************)
EXTENDS Integers, Sequences, FiniteSets, TLC

VARIABLES
    last_seen_times,  \* dict icao24 -> time of the last alert (line 42)
    channel_config,   \* dict guild id -> channel id, in memory (line 39)
    disk,             \* channel_config.json: [exists, body]
    loop,             \* the tasks.loop: "stopped", "running" or "failed"
    pc,               \* position of the polling cycle
    clock,            \* time.time() at the current / most recent tick; `now`
    rows,             \* rows of data["states"] not yet iterated (head = item)
    gi,               \* index into bot.guilds of the fanout in progress
    target,           \* the channel the pending channel.send writes to
    h,                \* the slash-command handler in flight, with its reply
    on_ready,         \* the on_ready coroutine in flight: the await it is at
    ready,            \* history: what the most recent on_ready logged
    outcome,          \* history: the requests and the result of the cycle
    snap,             \* history: the batch and the table the cycle started from
    last,             \* history: the row the cycle evaluated last
    firedAt,          \* history: per icao24, the cycle times of its alerts
    fan,              \* history: what the fanout in progress met per guild
    delivered         \* history: messages channel.send delivered, this fanout

vars == <<last_seen_times, channel_config, disk, loop, pc, clock, rows, gi,
          target, h, on_ready, ready, outcome, snap, last, firedAt, fan, delivered>>

(***************************************************************************)
(* Constants of the program and bounds of the model                        *)
(***************************************************************************)
COOLDOWN == 28800
HTTP_OK == 200

\* The status codes the responses of the model carry: success and a failure.
StatusCodes == {HTTP_OK, 500}

MaxTick == 2
MaxJitter == 1
MaxRows == 2

None == "None"

icao_to_reg ==
    ("a671d3" :> "N514RS") @@ ("ab42a6" :> "N8244L") @@ ("ab1bdc" :> "N8149S")
    @@ ("a5704b" :> "N45FL") @@ ("a9b044" :> "N723SC") @@ ("ac7be4" :> "N903SC")

InitLastSeen ==
    ("a671d3" :> 0) @@ ("ab42a6" :> 0) @@ ("ab1bdc" :> 0)
    @@ ("a5704b" :> 0) @@ ("a9b044" :> 0) @@ ("ac7be4" :> 0)

\* The identifiers the telemetry rows of the model carry at index 0: two
\* tracked aircraft and one that is not tracked.
Observable == {"a671d3", "ab42a6", "ffffff"}

\* A row of data["states"]: a list whose element 0 is the icao24; the empty
\* list is a malformed row (item[0] raises IndexError).
Rows == {<<i>> : i \in Observable} \cup {<<>>}

SeqsUpTo(S, n) == UNION {[1..k -> S] : k \in 0..n}

Batches == SeqsUpTo(Rows, MaxRows)

\* data.get("states"): None (absent or null), or a list of rows.
NullPayload == [null |-> TRUE, rows |-> <<>>]

PayloadsOf(batches) ==
    {NullPayload} \cup {[null |-> FALSE, rows |-> b] : b \in batches}

Payloads == PayloadsOf(Batches)

\* The payloads of the specification that also runs the slash commands: at
\* most one row, of one tracked aircraft or malformed.
FocusPayloads == PayloadsOf({<<>>, << <<"a671d3">> >>, << <<>> >>})

\* Wall-clock seconds at which a tick can happen: around the multiples of
\* the smallest elapsed time that line 119 lets through, so that elapsed
\* times of 1, COOLDOWN and COOLDOWN + 1 seconds all occur.
Times == {k * (COOLDOWN + 1) + j : k \in 1..MaxTick, j \in 0..MaxJitter}

\* The guilds the registry can hold, in the iteration order of bot.guilds,
\* and the channel ids of each.
GuildOrder == <<"g1", "g2">>

Tenants == {GuildOrder[i] : i \in 1..Len(GuildOrder)}

ChannelsOf == ("g1" :> {"c11", "c12"}) @@ ("g2" :> {"c21", "c22"})

Registries ==
    UNION {{f \in [D -> UNION {ChannelsOf[g] : g \in Tenants}] :
                \A g \in D : f[g] \in ChannelsOf[g]} : D \in SUBSET Tenants}

(***************************************************************************)
(* Pure helpers                                                            *)
(***************************************************************************)
\* dict.get(key): the value, or None.
Get(d, k) == IF k \in DOMAIN d THEN d[k] ELSE None

\* d[key] = value on a dict.
Put(d, k, v) == [x \in DOMAIN d \cup {k} |-> IF x = k THEN v ELSE d[x]]

\* json.dump of the registry: the members of the JSON object.
save_config(cfg) == [exists |-> TRUE, body |-> {<<g, cfg[g]>> : g \in DOMAIN cfg}]

\* json.load of the file, {} when there is none.
load_config(file) ==
    IF file.exists
    THEN [g \in {p[1] : p \in file.body} |->
            CHOOSE v \in {p[2] : p \in file.body} : <<g, v>> \in file.body]
    ELSE <<>>

NoFile == [exists |-> FALSE, body |-> {}]

\* A variant of Message that does not name the registration.
MessageWithoutLabel(icao24) == [reg |-> "unknown", icao |-> icao24]

\* The alert text of line 121: it names the registration and the icao24.
Message(icao24) == [reg |-> icao_to_reg[icao24], icao |-> icao24]

\* The values of "access_token" in the token responses of the model.
Tokens == {"tokA", "tokB"}

\* A variant of Authorization that sends a token kept from elsewhere.
AuthorizationStale(token) == [scheme |-> "Bearer", token |-> "tokA"]

\* Lines 99-101: the Authorization header of the telemetry request.
Authorization(token) == [scheme |-> "Bearer", token |-> token]

\* A variant of Fetch without the test of lines 112-113: the loop of line
\* 117 over None raises TypeError.
FetchWithoutNullTest(token_status, token_body, api_status, api_body, states) ==
    IF token_status # HTTP_OK THEN [result |-> "token_failed", api_called |-> FALSE]
    ELSE IF token_body # "object" THEN [result |-> "raised", api_called |-> FALSE]
    ELSE IF api_status # HTTP_OK THEN [result |-> "api_failed", api_called |-> TRUE]
    ELSE IF api_body # "object" THEN [result |-> "raised", api_called |-> TRUE]
    ELSE IF states.null THEN [result |-> "raised", api_called |-> TRUE]
    ELSE [result |-> "states", api_called |-> TRUE]

\* A variant of Fetch without the status check of lines 106-108.
FetchIgnoringApiStatus(token_status, token_body, api_status, api_body, states) ==
    IF token_status # HTTP_OK THEN [result |-> "token_failed", api_called |-> FALSE]
    ELSE IF token_body # "object" THEN [result |-> "raised", api_called |-> FALSE]
    ELSE IF api_body # "object" THEN [result |-> "raised", api_called |-> TRUE]
    ELSE IF states.null THEN [result |-> "no_states", api_called |-> TRUE]
    ELSE [result |-> "states", api_called |-> TRUE]

\* Lines 92-113: what the two requests and the payload lead to, and whether
\* the telemetry request of line 105 was made.  A body is "object" when
\* .json() returns a dict and "array" when it returns a list, on which .get
\* raises AttributeError.
Fetch(token_status, token_body, api_status, api_body, states) ==
    IF token_status # HTTP_OK THEN [result |-> "token_failed", api_called |-> FALSE]
    ELSE IF token_body # "object" THEN [result |-> "raised", api_called |-> FALSE]
    ELSE IF api_status # HTTP_OK THEN [result |-> "api_failed", api_called |-> TRUE]
    ELSE IF api_body # "object" THEN [result |-> "raised", api_called |-> TRUE]
    ELSE IF states.null THEN [result |-> "no_states", api_called |-> TRUE]
    ELSE [result |-> "states", api_called |-> TRUE]

\* A variant of ShouldAlert that also fires at an elapsed time of COOLDOWN.
ShouldAlertAtBoundary(lst, icao24, now) ==
    icao24 \in DOMAIN lst /\ now - lst[icao24] >= COOLDOWN

\* A variant of ShouldAlert that takes an unknown aircraft as never alerted.
ShouldAlertUntracked(lst, icao24, now) ==
    now - (IF icao24 \in DOMAIN lst THEN lst[icao24] ELSE 0) > COOLDOWN

\* A variant of ShouldAlert that also looks at the registry.
ShouldAlertIfRegistered(lst, icao24, now) ==
    icao24 \in DOMAIN lst /\ now - lst[icao24] > COOLDOWN /\ DOMAIN channel_config # {}

\* Line 119: the row's aircraft is tracked and outside its cooldown.
ShouldAlert(lst, icao24, now) ==
    icao24 \in DOMAIN lst /\ now - lst[icao24] > COOLDOWN

\* Variants of CommitLastSeen: one that writes nothing, one that writes the
\* time to the entry of every aircraft.
CommitNothing(lst, icao24, now) == lst

CommitAll(lst, icao24, now) == [i \in DOMAIN lst |-> now]

\* A variant of CommitLastSeen that also clears the entries of the others.
CommitResetOthers(lst, icao24, now) ==
    [i \in DOMAIN lst |-> IF i = icao24 THEN now ELSE 0]

\* A variant of CommitLastSeen that writes the time only when a message of
\* the fanout was delivered.
CommitIfDelivered(lst, icao24, now) ==
    IF delivered # <<>> THEN [lst EXCEPT ![icao24] = now] ELSE lst

\* Line 123: an assignment to the key icao24 of the dict, which would add
\* the key if the dict did not have it.
CommitLastSeen(lst, icao24, now) == Put(lst, icao24, now)

PendingFan == [g \in Tenants |-> "pending"]

NoRow == [icao |-> None, fired |-> FALSE]

NoSnap == [rows |-> <<>>, lst |-> <<>>]

\* No Authorization header: the telemetry request was not made.
NoAuth == [scheme |-> None, token |-> None]

NoCycle == [token |-> 0, issued |-> None, api |-> 0, auth |-> NoAuth, result |-> "none"]

NoReply == [kind |-> None, channel |-> None]

IdleHandler == [st |-> "idle", cmd |-> None, resp |-> NoReply]

\* No on_ready in flight.
NoOnReady == [at |-> None, gi |-> 0]

\* What an await of dm_owner_setup_message can end with: it returns, it
\* raises discord.Forbidden (caught at line 133), it raises anything else.
DmResults == {"ok", "forbidden", "raised"}

\* What a slash command arrives with: the guild (None in a direct message),
\* the requester ("admin": a Member with the administrator permission,
\* "member": a Member without it, "user": not a Member object) and the
\* channel it was typed in.
Interactions ==
    {[guild |-> None, user |-> "user", channel |-> "dm"]}
    \cup UNION {{[guild |-> g, user |-> u, channel |-> c] :
                    u \in {"admin", "member", "user"}, c \in ChannelsOf[g]} :
                g \in Tenants}

\* Other coroutines run only while the cycle is suspended or asleep.
CycleYielded == pc \in {"idle", "sending"}

(***************************************************************************)
(* Initial state: the module has been imported, the bot is not yet ready   *)
(***************************************************************************)
Init ==
    /\ \E file \in {NoFile} \cup {save_config(r) : r \in Registries} :
          /\ disk = file
          /\ channel_config = load_config(file)
    /\ last_seen_times = InitLastSeen
    /\ loop = "stopped"
    /\ pc = "idle"
    /\ clock = 0
    /\ rows = <<>>
    /\ gi = 0
    /\ target = None
    /\ h = IdleHandler
    /\ on_ready = NoOnReady
    /\ ready = "none"
    /\ outcome = NoCycle
    /\ snap = NoSnap
    /\ last = NoRow
    /\ firedAt = [i \in DOMAIN icao_to_reg |-> <<>>]
    /\ fan = PendingFan
    /\ delivered = <<>>

(***************************************************************************)
(* on_ready (lines 136-155) and dm_owner_setup_message (lines 125-134)     *)
(***************************************************************************)
\* A variant of OnReadyResult without the test of line 148: start() on a
\* loop whose task is not done raises RuntimeError, which line 154 catches.
OnReadyUnguarded(state, awaits_ok) ==
    IF ~awaits_ok THEN [loop |-> state, log |-> "error"]
    ELSE IF state = "running" THEN [loop |-> state, log |-> "error"]
    ELSE [loop |-> "running", log |-> "started"]

\* Lines 148-155: the state of the loop when on_ready returns and what it
\* logged.  is_running() is false before the first start and after the
\* loop's task ended with an exception.  awaits_ok = FALSE: an await before
\* line 148 raised and line 154 caught it.
OnReadyResult(state, awaits_ok) ==
    IF ~awaits_ok THEN [loop |-> state, log |-> "error"]
    ELSE IF state = "running" THEN [loop |-> state, log |-> "already"]
    ELSE [loop |-> "running", log |-> "started"]

\* on_ready returns: lines 148-152 after the awaits, or line 155.
OnReadyReturn(awaits_ok) ==
    LET r == OnReadyResult(loop, awaits_ok) IN
    /\ loop' = r.loop
    /\ ready' = r.log
    /\ on_ready' = NoOnReady

\* Lines 143-146 from the guild after index `from`: the next guild of
\* bot.guilds that has no entry now is sent the setup message (the
\* coroutine is suspended at line 128); without one, line 148 is reached.
OnReadyContinue(from, guilds) ==
    LET todo == {i \in (from + 1)..Len(GuildOrder) :
                    GuildOrder[i] \in guilds
                    /\ GuildOrder[i] \notin DOMAIN channel_config} IN
    IF todo = {}
    THEN OnReadyReturn(TRUE)
    ELSE /\ on_ready' = [at |-> "fetch_user",
                         gi |-> CHOOSE i \in todo : \A j \in todo : i <= j]
         /\ UNCHANGED <<loop, ready>>

\* The ready event is dispatched: line 138, then the coroutine is suspended
\* at line 140.  One on_ready is in flight at a time.
OnReadyStart ==
    /\ CycleYielded
    /\ on_ready.at = None
    /\ on_ready' = [at |-> "tree.sync", gi |-> 0]
    /\ ready' = "none"
    /\ UNCHANGED <<last_seen_times, channel_config, disk, loop, pc, clock, rows, gi,
                   target, h, outcome, snap, last, firedAt, fan, delivered>>

\* await bot.tree.sync() (line 140) returns or raises; guilds is bot.guilds.
SyncDone(ok, guilds) ==
    /\ CycleYielded
    /\ on_ready.at = "tree.sync"
    /\ IF ok THEN OnReadyContinue(0, guilds) ELSE OnReadyReturn(FALSE)
    /\ UNCHANGED <<last_seen_times, channel_config, disk, pc, clock, rows, gi,
                   target, h, outcome, snap, last, firedAt, fan, delivered>>

\* await bot.fetch_user (line 128) ends.
FetchUserDone(res, guilds) ==
    /\ CycleYielded
    /\ on_ready.at = "fetch_user"
    /\ CASE res = "ok" ->
              /\ on_ready' = [on_ready EXCEPT !.at = "owner.send"]
              /\ UNCHANGED <<loop, ready>>
         [] res = "forbidden" -> OnReadyContinue(on_ready.gi, guilds)
         [] OTHER -> OnReadyReturn(FALSE)
    /\ UNCHANGED <<last_seen_times, channel_config, disk, pc, clock, rows, gi,
                   target, h, outcome, snap, last, firedAt, fan, delivered>>

\* await owner.send (line 129) ends.
OwnerSendDone(res, guilds) ==
    /\ CycleYielded
    /\ on_ready.at = "owner.send"
    /\ IF res \in {"ok", "forbidden"}
       THEN OnReadyContinue(on_ready.gi, guilds)
       ELSE OnReadyReturn(FALSE)
    /\ UNCHANGED <<last_seen_times, channel_config, disk, pc, clock, rows, gi,
                   target, h, outcome, snap, last, firedAt, fan, delivered>>

(***************************************************************************)
(* check_aircraft_states (lines 81-123)                                    *)
(***************************************************************************)
\* One tick: lines 83-115.  An exception leaves the coroutine (there is no
\* try in it) and ends the loop's task.  access_token is the token of this
\* tick's token response (line 97), a local of the coroutine.
Tick(t, token_status, token_body, access_token, api_status, api_body, states) ==
    /\ loop = "running" /\ pc = "idle"
    /\ t > clock
    /\ clock' = t
    /\ LET r == Fetch(token_status, token_body, api_status, api_body, states) IN
       /\ outcome' = [token |-> token_status,
                      issued |-> IF token_status = HTTP_OK /\ token_body = "object"
                                 THEN access_token ELSE None,
                      api |-> IF r.api_called THEN api_status ELSE 0,
                      auth |-> IF r.api_called THEN Authorization(access_token)
                               ELSE NoAuth,
                      result |-> r.result]
       /\ loop' = IF r.result = "raised" THEN "failed" ELSE loop
       /\ pc' = IF r.result = "states" THEN "row" ELSE "idle"
       /\ rows' = IF r.result = "states" THEN states.rows ELSE <<>>
       /\ snap' = IF r.result = "states"
                  THEN [rows |-> states.rows, lst |-> last_seen_times] ELSE NoSnap
    /\ last' = NoRow
    /\ UNCHANGED <<on_ready, ready, last_seen_times, channel_config, disk, gi, target, h, firedAt,
                   fan, delivered>>

\* A variant of RowStep that writes line 123 before the fanout of line 122.
RowStepCommitFirst ==
    /\ pc = "row"
    /\ IF rows = <<>>
       THEN /\ pc' = "idle"
            /\ outcome' = [outcome EXCEPT !.result = "done"]
            /\ last' = NoRow
            /\ snap' = NoSnap
            /\ UNCHANGED <<loop, rows, gi, firedAt, last_seen_times>>
       ELSE IF Len(Head(rows)) = 0
       THEN /\ pc' = "idle"
            /\ outcome' = [outcome EXCEPT !.result = "raised"]
            /\ loop' = "failed"
            /\ rows' = <<>>
            /\ last' = NoRow
            /\ snap' = NoSnap
            /\ UNCHANGED <<gi, firedAt, last_seen_times>>
       ELSE IF ShouldAlert(last_seen_times, Head(rows)[1], clock)
       THEN /\ pc' = "guild"
            /\ gi' = 1
            /\ last' = [icao |-> Head(rows)[1], fired |-> TRUE]
            /\ firedAt' = [firedAt EXCEPT ![Head(rows)[1]] = Append(@, clock)]
            /\ last_seen_times' = CommitLastSeen(last_seen_times, Head(rows)[1], clock)
            /\ UNCHANGED <<loop, rows, outcome, snap>>
       ELSE /\ rows' = Tail(rows)
            /\ last' = [icao |-> Head(rows)[1], fired |-> FALSE]
            /\ UNCHANGED <<loop, pc, gi, outcome, snap, firedAt, last_seen_times>>
    /\ UNCHANGED <<on_ready, ready, channel_config, disk, clock, target, h, fan,
                   delivered>>

\* Lines 117-121 for the row at the head: the end of the loop, a malformed
\* row (item[0] raises), an alert, or nothing.
RowStep ==
    /\ pc = "row"
    /\ IF rows = <<>>
       THEN /\ pc' = "idle"
            /\ outcome' = [outcome EXCEPT !.result = "done"]
            /\ last' = NoRow
            /\ snap' = NoSnap
            /\ UNCHANGED <<loop, rows, gi, firedAt>>
       ELSE IF Len(Head(rows)) = 0
       THEN /\ pc' = "idle"
            /\ outcome' = [outcome EXCEPT !.result = "raised"]
            /\ loop' = "failed"
            /\ rows' = <<>>
            /\ last' = NoRow
            /\ snap' = NoSnap
            /\ UNCHANGED <<gi, firedAt>>
       ELSE IF ShouldAlert(last_seen_times, Head(rows)[1], clock)
       THEN /\ pc' = "guild"
            /\ gi' = 1
            /\ last' = [icao |-> Head(rows)[1], fired |-> TRUE]
            /\ firedAt' = [firedAt EXCEPT ![Head(rows)[1]] = Append(@, clock)]
            /\ UNCHANGED <<loop, rows, outcome, snap>>
       ELSE /\ rows' = Tail(rows)
            /\ last' = [icao |-> Head(rows)[1], fired |-> FALSE]
            /\ UNCHANGED <<loop, pc, gi, outcome, snap, firedAt>>
    /\ UNCHANGED <<on_ready, ready, last_seen_times, channel_config, disk, clock, target, h, fan,
                   delivered>>

\* Line 123 and the step to the next row.
CommitStep ==
    /\ pc = "commit"
    /\ last_seen_times' = CommitLastSeen(last_seen_times, Head(rows)[1], clock)
    /\ rows' = Tail(rows)
    /\ pc' = "row"
    /\ gi' = 0
    /\ fan' = PendingFan
    /\ delivered' = <<>>
    /\ UNCHANGED <<on_ready, ready, snap, channel_config, disk, loop, clock, target, h, outcome, last,
                   firedAt>>

(***************************************************************************)
(* send_alert_to_guilds (lines 208-219)                                    *)
(***************************************************************************)
\* A variant of Resolve without the test of lines 212-213.
ResolveWithoutEntryTest(cfg, g, in_guilds, is_text, can_send) ==
    IF ~in_guilds THEN "absent"
    ELSE IF is_text /\ can_send THEN "sending"
    ELSE "skipped"

\* What lines 210-215 decide for one guild.  in_guilds: the guild is in the
\* list that line 209 iterates.  is_text, can_send: what guild.get_channel
\* returned is a TextChannel, and the bot may write to it.
Resolve(cfg, g, in_guilds, is_text, can_send) ==
    IF ~in_guilds THEN "absent"
    ELSE IF Get(cfg, g) = None THEN "unset"
    ELSE IF is_text /\ can_send THEN "sending"
    ELSE "skipped"

GuildStep(in_guilds, is_text, can_send) ==
    /\ pc = "guild"
    /\ IF gi > Len(GuildOrder)
       THEN /\ pc' = "commit"
            /\ UNCHANGED <<gi, target, fan>>
       ELSE LET g == GuildOrder[gi]
                r == Resolve(channel_config, g, in_guilds, is_text, can_send) IN
            /\ fan' = [fan EXCEPT ![g] = r]
            /\ pc' = IF r = "sending" THEN "sending" ELSE "guild"
            /\ gi' = IF r = "sending" THEN gi ELSE gi + 1
            /\ target' = IF r = "sending" THEN Get(channel_config, g) ELSE None
    /\ UNCHANGED <<on_ready, ready, snap, last_seen_times, channel_config, disk, loop, clock, rows, h,
                   outcome, last, firedAt, delivered>>

\* A variant of SendResult without the try of lines 216-219.
SendResultUncaught(ok) == IF ok THEN "sent" ELSE "propagated"

\* What the end of the await of line 217 leaves: the message in the channel
\* ("sent"), an exception that line 218 catches ("caught"), or an exception
\* that leaves send_alert_to_guilds ("propagated").
SendResult(ok) == IF ok THEN "sent" ELSE "caught"

SendDone(ok) ==
    /\ pc = "sending"
    /\ LET g == GuildOrder[gi]
           r == SendResult(ok) IN
       /\ fan' = [fan EXCEPT ![g] = IF ok THEN "send_ok" ELSE "send_raised"]
       /\ delivered' = IF r = "sent"
                       THEN Append(delivered, <<g, target, Message(Head(rows)[1])>>)
                       ELSE delivered
       /\ pc' = IF r = "propagated" THEN "idle" ELSE "guild"
       /\ loop' = IF r = "propagated" THEN "failed" ELSE loop
       /\ outcome' = IF r = "propagated"
                     THEN [outcome EXCEPT !.result = "raised"] ELSE outcome
       /\ rows' = IF r = "propagated" THEN <<>> ELSE rows
       /\ gi' = gi + 1
       /\ target' = None
    /\ UNCHANGED <<on_ready, ready, snap, last_seen_times, channel_config, disk, clock, h, last, firedAt>>

(***************************************************************************)
(* setchannel (lines 163-185) and getchannel (lines 187-206), both wrapped *)
(* by safe_interaction_handler (lines 69-79)                               *)
(***************************************************************************)
\* Variants of SetchannelResult: one without the permission checks of lines
\* 173-179, one that replaces the whole registry by the new entry.
SetchannelNoAdminCheck(cfg, i) ==
    IF i.guild = None
    THEN [cfg |-> cfg, saved |-> FALSE, kind |-> "server_only"]
    ELSE [cfg |-> Put(cfg, i.guild, i.channel), saved |-> TRUE, kind |-> "set_ok"]

SetchannelReplaceAll(cfg, i) ==
    IF i.guild = None
    THEN [cfg |-> cfg, saved |-> FALSE, kind |-> "server_only"]
    ELSE IF i.user = "user"
    THEN [cfg |-> cfg, saved |-> FALSE, kind |-> "unverified"]
    ELSE IF i.user # "admin"
    THEN [cfg |-> cfg, saved |-> FALSE, kind |-> "admin_only"]
    ELSE [cfg |-> (i.guild :> i.channel), saved |-> TRUE, kind |-> "set_ok"]

\* A variant of SetchannelResult without the save_config of line 183.
SetchannelWithoutSave(cfg, i) ==
    IF i.guild = None
    THEN [cfg |-> cfg, saved |-> FALSE, kind |-> "server_only"]
    ELSE IF i.user = "user"
    THEN [cfg |-> cfg, saved |-> FALSE, kind |-> "unverified"]
    ELSE IF i.user # "admin"
    THEN [cfg |-> cfg, saved |-> FALSE, kind |-> "admin_only"]
    ELSE [cfg |-> Put(cfg, i.guild, i.channel), saved |-> FALSE, kind |-> "set_ok"]

\* Lines 168-185 of setchannel, between its two awaits: the registry after
\* them, whether save_config ran, and the followup message.
SetchannelResult(cfg, i) ==
    IF i.guild = None
    THEN [cfg |-> cfg, saved |-> FALSE, kind |-> "server_only"]
    ELSE IF i.user = "user"
    THEN [cfg |-> cfg, saved |-> FALSE, kind |-> "unverified"]
    ELSE IF i.user # "admin"
    THEN [cfg |-> cfg, saved |-> FALSE, kind |-> "admin_only"]
    ELSE [cfg |-> Put(cfg, i.guild, i.channel), saved |-> TRUE, kind |-> "set_ok"]

\* A variant of GetchannelResult that indexes the registry (KeyError on a
\* guild without an entry, answered by the wrapper's error path).
GetchannelIndexed(cfg, guild, resolves) ==
    IF guild = None THEN [kind |-> "server_only", channel |-> None]
    ELSE IF guild \notin DOMAIN cfg THEN [kind |-> "error", channel |-> None]
    ELSE IF resolves
    THEN [kind |-> "current", channel |-> cfg[guild]]
    ELSE [kind |-> "gone", channel |-> None]

\* Lines 192-206 of getchannel: the followup message.  resolves: whether
\* interaction.guild.get_channel finds the stored channel.
GetchannelResult(cfg, guild, resolves) ==
    IF guild = None THEN [kind |-> "server_only", channel |-> None]
    ELSE IF Get(cfg, guild) # None
    THEN IF resolves
         THEN [kind |-> "current", channel |-> Get(cfg, guild)]
         ELSE [kind |-> "gone", channel |-> None]
    ELSE [kind |-> "unset", channel |-> None]

\* The command is dispatched and the handler awaits response.defer
\* (lines 166 and 190).
CommandStart(cmd) ==
    /\ CycleYielded
    /\ h.st = "idle"
    /\ h' = [st |-> "deferring", cmd |-> cmd, resp |-> NoReply]
    /\ UNCHANGED <<on_ready, ready, snap, last_seen_times, channel_config, disk, loop, pc, clock, rows, gi,
                   target, outcome, last, firedAt, fan, delivered>>

\* The defer raised (the interaction expired): the wrapper of lines 72-78
\* catches it and the handler ends.
DeferRaised ==
    /\ CycleYielded
    /\ h.st = "deferring"
    /\ h' = IdleHandler
    /\ UNCHANGED <<on_ready, ready, snap, last_seen_times, channel_config, disk, loop, pc, clock, rows, gi,
                   target, outcome, last, firedAt, fan, delivered>>

\* Lines 168-185 up to the await of the followup message.
SetchannelBody(i) ==
    /\ CycleYielded
    /\ h.st = "deferring" /\ h.cmd = "setchannel"
    /\ LET r == SetchannelResult(channel_config, i) IN
       /\ channel_config' = r.cfg
       /\ disk' = IF r.saved THEN save_config(r.cfg) ELSE disk
       /\ h' = [st |-> "replying", cmd |-> "setchannel",
                resp |-> [kind |-> r.kind, channel |-> None]]
    /\ UNCHANGED <<on_ready, ready, snap, last_seen_times, loop, pc, clock, rows, gi, target, outcome,
                   last, firedAt, fan, delivered>>

\* Lines 192-206 up to the await of the followup message.
GetchannelBody(guild, resolves) ==
    /\ CycleYielded
    /\ h.st = "deferring" /\ h.cmd = "getchannel"
    /\ h' = [st |-> "replying", cmd |-> "getchannel",
             resp |-> GetchannelResult(channel_config, guild, resolves)]
    /\ UNCHANGED <<on_ready, ready, snap, last_seen_times, channel_config, disk, loop, pc, clock, rows, gi,
                   target, outcome, last, firedAt, fan, delivered>>

\* The await of the followup message ends (sent, or raised and caught by the
\* wrapper): the handler returns.
ReplyDone ==
    /\ CycleYielded
    /\ h.st = "replying"
    /\ h' = IdleHandler
    /\ UNCHANGED <<on_ready, ready, snap, last_seen_times, channel_config, disk, loop, pc, clock, rows, gi,
                   target, outcome, last, firedAt, fan, delivered>>

(***************************************************************************)
(* Specifications                                                          *)
(***************************************************************************)
CommandNext ==
    \/ \E cmd \in {"setchannel", "getchannel"} : CommandStart(cmd)
    \/ DeferRaised
    \/ \E i \in Interactions : SetchannelBody(i)
    \/ \E g \in Tenants \cup {None}, resolves \in BOOLEAN : GetchannelBody(g, resolves)
    \/ ReplyDone

\* The steps of the loop and of on_ready.  The states of a response are
\* read only when both requests returned 200 with a JSON object, so that the
\* ticks where they are not read are taken with one payload.
CycleNextOver(payloads) ==
    \/ OnReadyStart
    \/ \E ok \in BOOLEAN, guilds \in SUBSET Tenants : SyncDone(ok, guilds)
    \/ \E res \in DmResults, guilds \in SUBSET Tenants : FetchUserDone(res, guilds)
    \/ \E res \in DmResults, guilds \in SUBSET Tenants : OwnerSendDone(res, guilds)
    \/ \E t \in Times, ts \in StatusCodes, tb \in {"object", "array"},
          tok \in Tokens, as \in StatusCodes, ab \in {"object", "array"} :
          Tick(t, ts, tb, tok, as, ab, NullPayload)
    \/ \E t \in Times, tok \in Tokens, st \in payloads \ {NullPayload} :
          Tick(t, HTTP_OK, "object", tok, HTTP_OK, "object", st)
    \/ RowStep
    \/ CommitStep
    \/ \E in_guilds \in BOOLEAN, is_text \in BOOLEAN, can_send \in BOOLEAN :
          GuildStep(in_guilds, is_text, can_send)
    \/ \E ok \in BOOLEAN : SendDone(ok)

\* The polling loop alone, on every batch of up to MaxRows rows; the registry
\* is the one loaded from the file.
CycleNext == CycleNextOver(Payloads)

SpecCycle == Init /\ [][CycleNext]_vars

\* The whole program: the polling loop interleaved with the slash commands.
Next == CycleNextOver(FocusPayloads) \/ CommandNext

Spec == Init /\ [][Next]_vars

(***************************************************************************)
(* Properties                                                              *)
(***************************************************************************)
Tracked == DOMAIN icao_to_reg

\* The times of the alerts of e, as a set.
FiredTimes(e) == {firedAt[e][i] : i \in 1..Len(firedAt[e])}

\* C1 (cooldown): if a tracked aircraft fires an alert in the cycle of time
\* t1, it fires in no later cycle of time t2 with t2 - t1 <= 28800, whatever
\* the slash commands do in between; an elapsed time of exactly 28800 does
\* not fire.
C1_Cooldown ==
    \A e \in Tracked : \A i, j \in 1..Len(firedAt[e]) :
        firedAt[e][i] < firedAt[e][j] => firedAt[e][j] - firedAt[e][i] > COOLDOWN

\* A cycle evaluated a row of an aircraft exactly 28800 seconds after its
\* alert and did not fire.
C1_Witness ==
    \E e \in Tracked :
        /\ last = [icao |-> e, fired |-> FALSE]
        /\ \E t1 \in FiredTimes(e) : clock - t1 = COOLDOWN

\* C2 (re-fire after the cooldown), as amended: when a cycle evaluates a row
\* of a tracked aircraft and every earlier alert of that aircraft is more
\* than 28800 seconds before the cycle's time (the time itself being more
\* than 28800, the initial last_seen_times being 0), the aircraft fires in
\* that cycle.
C2_RefireAfterLastAlert ==
    \A e \in Tracked :
        ( /\ last.icao = e
          /\ clock > COOLDOWN
          /\ \A t1 \in FiredTimes(e) : t1 # clock => clock - t1 > COOLDOWN )
        => clock \in FiredTimes(e)

\* An aircraft fired, and fired again in a later cycle.
C2_Witness ==
    \E e \in Tracked :
        /\ last = [icao |-> e, fired |-> TRUE]
        /\ \E t1 \in FiredTimes(e) : clock - t1 > COOLDOWN

\* C2 as stated: for every pair of cycle times t1 < t2 more than 28800
\* apart at which the aircraft is observed, it fires at both.  Here t1 is
\* taken among the cycles where it fired (so it was observed there), and t2
\* is the current cycle, which evaluated a row of it.
C2_AsStated ==
    \A e \in Tracked : \A t1 \in FiredTimes(e) :
        (last.icao = e /\ clock - t1 > COOLDOWN) => clock \in FiredTimes(e)

\* C3 (duplicate rows): within one cycle a tracked aircraft produces at most
\* one alert, however many rows of the batch carry its identifier: no two
\* alerts of an aircraft have the same cycle time.
C3_OneAlertPerCycle ==
    \A e \in Tracked : \A i, j \in 1..Len(firedAt[e]) :
        i # j => firedAt[e][i] # firedAt[e][j]

\* A cycle that fired for an aircraft evaluated a further row of it, after
\* the fanout and the commit of the first one, and did not fire.
C3_Witness ==
    \E e \in Tracked :
        /\ last = [icao |-> e, fired |-> FALSE]
        /\ clock \in FiredTimes(e)

\* The aircraft of the fanout in progress, and the messages of that fanout
\* that reached guild g.
Alerted == Head(rows)[1]

DeliveredTo(g) == {i \in 1..Len(delivered) : delivered[i][1] = g}

\* C4 (fanout failure isolation): a destination whose channel does not
\* resolve, or whose send raises, does not end the fanout: the fanout goes
\* on (the broadcast does not raise, the loop stays up), it comes to every
\* guild before it returns, and every guild whose send succeeded has the
\* message, wherever the failing one stands in the order.
C4_FailureIsolation ==
    /\ (\E k \in Tenants : fan[k] \in {"skipped", "send_raised"})
          => (pc \in {"guild", "sending", "commit"} /\ loop = "running")
    /\ pc = "commit" =>
          \A g \in Tenants :
              /\ fan[g] # "pending"
              /\ fan[g] = "send_ok" =>
                    \E i \in DeliveredTo(g) : delivered[i][3] = Message(Alerted)

\* The fanout returned: the send to the first guild raised and the second
\* guild has the message.
C4_Witness ==
    /\ pc = "commit"
    /\ fan["g1"] = "send_raised"
    /\ fan["g2"] = "send_ok"
    /\ \E i \in DeliveredTo("g2") : delivered[i][3] = Message(Alerted)

\* C5 (loop survival), as stated: a cycle in which a step raised leaves the
\* loop running.
C5_LoopSurvives == outcome.result = "raised" => loop = "running"

\* C6 (fetch failure aborts only the cycle): a tick whose token request or
\* telemetry request returns a status other than 200 sends no message, fires
\* no alert, leaves last_seen_times and the registry (in memory and on disk)
\* unchanged, and leaves the loop running and waiting for the next tick.
C6_FetchFailureAbortsCycle ==
    [][(clock' # clock /\ (outcome'.token # HTTP_OK \/ outcome'.api \notin {0, HTTP_OK}))
        => /\ UNCHANGED <<last_seen_times, channel_config, disk, delivered, firedAt>>
           /\ pc' = "idle"
           /\ loop' = "running"]_vars

\* A telemetry request failed in a cycle that follows one with an alert.
C6_Witness ==
    /\ outcome.token = HTTP_OK /\ outcome.api # HTTP_OK /\ outcome.result = "api_failed"
    /\ \E e \in Tracked : last_seen_times[e] # 0
    /\ pc = "idle" /\ loop = "running"

\* C7 (delivery), as amended: an alert of an aircraft outside its cooldown is
\* one alert, and one message naming its registration is sent to the
\* registered channel of every guild of bot.guilds whose channel resolves as
\* a text channel the bot may write to and whose send does not raise, and to
\* no other guild.
C7_DeliveryToReachable ==
    pc = "commit" =>
        /\ Cardinality({i \in 1..Len(firedAt[Alerted]) : firedAt[Alerted][i] = clock}) = 1
        /\ \A g \in Tenants :
              /\ Cardinality(DeliveredTo(g)) = IF fan[g] = "send_ok" THEN 1 ELSE 0
              /\ fan[g] \in {"absent", "unset", "skipped", "send_raised", "send_ok"}
              /\ \A i \in DeliveredTo(g) :
                    /\ delivered[i][2] \in ChannelsOf[g]
                    /\ delivered[i][3].reg = icao_to_reg[Alerted]
                    /\ delivered[i][3].icao = Alerted

\* Both guilds are registered and both have the message of the alert.
C7_Witness ==
    /\ pc = "commit"
    /\ DOMAIN channel_config = Tenants
    /\ \A g \in Tenants : Cardinality(DeliveredTo(g)) = 1

\* C7 as stated: the message naming the label is sent to every destination
\* present in the registry.
C7_AsStated ==
    pc = "commit" =>
        \A g \in DOMAIN channel_config :
            \E i \in DeliveredTo(g) : delivered[i][3].reg = icao_to_reg[Alerted]

\* C8 (setchannel authorization): a setchannel whose requester is not an
\* administrator, or that comes without a guild, is answered with a refusal
\* and changes neither channel_config nor the file.
C8_SetchannelRejected ==
    [][\A i \in Interactions :
          ((i.guild = None \/ i.user # "admin") /\ SetchannelBody(i))
          => /\ h'.st = "replying"
             /\ h'.resp.kind \in {"server_only", "unverified", "admin_only"}
             /\ UNCHANGED <<channel_config, disk>>]_vars

\* A member without the administrator permission was refused.
C8_Witness == h.cmd = "setchannel" /\ h.resp.kind = "admin_only"

\* What C9 says of the registry, for a setchannel step of interaction i.
UpsertOf(i) ==
    /\ DOMAIN channel_config' = DOMAIN channel_config \cup {i.guild}
    /\ channel_config'[i.guild] = i.channel
    /\ \A g \in DOMAIN channel_config \ {i.guild} : channel_config'[g] = channel_config[g]
    /\ disk' = save_config(channel_config')
    /\ load_config(disk') = channel_config'
    /\ h'.resp.kind = "set_ok"

\* C9 (setchannel upsert), as amended: a setchannel by an administrator of
\* guild T from channel C leaves the registry with the entry T -> C and the
\* entries of the other guilds as they were, and writes it to the file; a
\* getchannel for a guild with entry C reports C when C resolves in the
\* guild, and otherwise that the saved channel no longer exists.
C9_UpsertThenGet ==
    [][/\ \A i \in Interactions :
             (i.guild # None /\ i.user = "admin" /\ SetchannelBody(i)) => UpsertOf(i)
       /\ \A g \in DOMAIN channel_config, r \in BOOLEAN :
             GetchannelBody(g, r)
             => h'.resp = IF r THEN [kind |-> "current", channel |-> channel_config[g]]
                               ELSE [kind |-> "gone", channel |-> None]]_vars

\* An administrator of g2 set the channel, g1 kept its entry, and the file
\* holds both.
C9_Witness ==
    /\ h.cmd = "setchannel" /\ h.resp.kind = "set_ok"
    /\ DOMAIN channel_config = Tenants
    /\ disk = save_config(channel_config)

\* C9 as stated: after the upsert, a getchannel for T reports C.
C9_AsStated ==
    [][/\ \A i \in Interactions :
             (i.guild # None /\ i.user = "admin" /\ SetchannelBody(i)) => UpsertOf(i)
       /\ \A g \in DOMAIN channel_config, r \in BOOLEAN :
             GetchannelBody(g, r)
             => h'.resp = [kind |-> "current", channel |-> channel_config[g]]]_vars

\* C10 (getchannel on an unset guild): a getchannel for a guild without an
\* entry answers "unset", never an error, whether or not a cycle is in
\* progress, and changes neither the registry, nor the file, nor any
\* last_seen_times.
C10_GetchannelUnset ==
    [][\A g \in Tenants, r \in BOOLEAN :
          (g \notin DOMAIN channel_config /\ GetchannelBody(g, r))
          => /\ h'.resp = [kind |-> "unset", channel |-> None]
             /\ UNCHANGED <<channel_config, disk, last_seen_times>>]_vars

\* A getchannel was answered "unset" while a fanout was waiting on a send.
C10_Witness ==
    /\ h.cmd = "getchannel" /\ h.resp.kind = "unset"
    /\ pc = "sending"

\* C11 (idempotent start): an on_ready that runs while the loop is running
\* leaves the loop and the cycle in progress as they are at each of its
\* steps, and when it reaches line 148 it logs that the loop is running and
\* raises nothing that line 154 would log; the loop is only ever started
\* when it is not running, which is when no cycle is in progress, so that
\* there is never more than one instance of it.
C11_IdempotentStart ==
    [][/\ (loop = "running" /\ on_ready' # on_ready)
             => UNCHANGED <<loop, pc, clock, rows, gi, target, outcome, last,
                            last_seen_times, firedAt, fan, delivered>>
       /\ \A guilds \in SUBSET Tenants :
             (/\ loop = "running"
              /\ \/ SyncDone(TRUE, guilds)
                 \/ FetchUserDone("forbidden", guilds)
                 \/ \E res \in {"ok", "forbidden"} : OwnerSendDone(res, guilds)
              /\ on_ready'.at = None)
             => ready' = "already"
       /\ (loop # "running" /\ loop' = "running")
             => (/\ ready' = "started" /\ on_ready.at # None /\ on_ready'.at = None
                 /\ pc = "idle" /\ rows = <<>> /\ UNCHANGED pc)
       /\ pc' # "idle" => loop' = "running"]_vars

\* A ready event came while a cycle of the running loop was waiting on a
\* send.
C11_Witness == ready = "already" /\ loop = "running" /\ pc = "sending"

\* The sightings of a batch as a function of (observations, table, now):
\* the rows in order, an aircraft that fires being taken as alerted at now
\* for the rows after it.
RECURSIVE Sightings(_, _, _)
Sightings(obs, lst, now) ==
    IF obs = <<>> \/ Len(Head(obs)) = 0 THEN <<>>
    ELSE LET id == Head(obs)[1] IN
         IF id \in DOMAIN lst /\ now - lst[id] > COOLDOWN
         THEN <<id>> \o Sightings(Tail(obs), [lst EXCEPT ![id] = now], now)
         ELSE Sightings(Tail(obs), lst, now)

\* How many times x occurs in the sequence q.
Occurrences(q, x) == Cardinality({i \in 1..Len(q) : q[i] = x})

\* The rows of the batch that the cycle in progress has been through.
Evaluated == SubSeq(snap.rows, 1, Len(snap.rows) - Len(rows))

\* C12 (evaluator purity), as amended: the alerts of a cycle are a function
\* of (observations, table at the start of the cycle, now), whatever the
\* deliveries do, and the decision step for a row (line 119) writes nothing; the table itself is written in the course of
\* the pass (line 123), after the fanout of each alert.
C12_DecisionIsFunction ==
    [][pc = "row" =>
          /\ \A e \in Tracked :
                Occurrences(firedAt[e], clock)
                    = Occurrences(Sightings(Evaluated, snap.lst, clock), e)
          /\ UNCHANGED <<last_seen_times, channel_config, disk, clock, fan,
                         delivered>>]_vars

\* The pass reached the end of a batch of two rows of one aircraft, which
\* fired once.
C12_Witness ==
    /\ pc = "row" /\ rows = <<>> /\ Len(snap.rows) = MaxRows
    /\ \E e \in Tracked :
          /\ \A i \in 1..Len(snap.rows) : snap.rows[i] = <<e>>
          /\ Sightings(snap.rows, snap.lst, clock) = <<e>>

\* C12 as stated: computing the sightings of a batch does not write the
\* table: during the pass the table is the one the cycle started from.
C12_AsStated == pc = "row" => last_seen_times = snap.lst

\* The fanout in progress has come to every guild.
FanoutAttempted ==
    \A g \in Tenants : fan[g] \in {"absent", "unset", "skipped", "send_ok", "send_raised"}

\* C13 (commit ordering): last_seen_times of an aircraft is written only by
\* the step that follows the return of the fanout of its alert, when the
\* fanout has come to every guild, and the value written is the cycle's
\* time; while the fanout of an alert is yet to run or is running, the entry
\* of its aircraft is not the cycle's time.
C13_CommitAfterFanout ==
    [][/\ \A e \in Tracked :
             last_seen_times'[e] # last_seen_times[e]
             => /\ pc = "commit" /\ Alerted = e /\ FanoutAttempted
                /\ last_seen_times'[e] = clock
       /\ pc' \in {"guild", "sending", "commit"}
             => last_seen_times'[Head(rows')[1]] # clock']_vars

\* The fanout of an alert returned after a send that a slash command
\* overlapped, and the time was written.
C13_Witness ==
    /\ pc = "row" /\ last.fired
    /\ last_seen_times[last.icao] = clock
    /\ h.st = "replying"

\* The fanout of an alert of e is pending or running.
InFanoutOf(e) == pc \in {"guild", "sending", "commit"} /\ Alerted = e

\* C14 (the cooldown is consumed whatever the deliveries): outside the fanout
\* of its own alert, last_seen_times of an aircraft is the cycle time of its
\* most recent alert (0 when it never fired), whether or not any message of
\* that alert was delivered; with line 119 this keeps the alert from being
\* sent again before the cooldown is over.
C14_CooldownConsumed ==
    \A e \in Tracked :
        ~InFanoutOf(e) =>
            last_seen_times[e] = IF firedAt[e] = <<>> THEN 0
                                 ELSE firedAt[e][Len(firedAt[e])]

\* An aircraft fired with no destination registered, so that nothing was
\* sent, and its time was written.
C14_Witness ==
    /\ channel_config = <<>>
    /\ pc = "row" /\ last.fired
    /\ firedAt[last.icao] # <<>>
    /\ last_seen_times[last.icao] = clock

\* C15 (two calls per cycle): the telemetry request of a cycle is made only
\* after the token request of that cycle returned 200, and carries the token
\* of that cycle's token response; a cycle whose token request failed makes
\* no telemetry request; the token sent is never one of another cycle.
C15_TokenThenTelemetry ==
    /\ outcome.api # 0 =>
          /\ outcome.token = HTTP_OK
          /\ outcome.issued \in Tokens
          /\ outcome.auth = [scheme |-> "Bearer", token |-> outcome.issued]
    /\ outcome.token # HTTP_OK =>
          (outcome.api = 0 /\ outcome.auth = NoAuth /\ outcome.issued = None)

\* A cycle that follows a cycle with an alert (which had its own token) made
\* its telemetry request with the second token of the model.
C15_Witness ==
    /\ outcome.api = HTTP_OK /\ outcome.auth.token = "tokB"
    /\ \E e \in Tracked : last_seen_times[e] # 0 /\ last_seen_times[e] < clock

\* The aircraft e has a row in the batch of the cycle in progress.
InBatch(e) == \E i \in 1..Len(snap.rows) : snap.rows[i] = <<e>>

\* C16 (frame of a cycle): a cycle changes last_seen_times only for the
\* aircraft that fired in it: an entry that differs from the one the cycle
\* started from is the cycle's time, and belongs to an aircraft that has a
\* row in the batch, was outside its cooldown and fired in this cycle; the
\* entries of the aircraft absent from the batch or inside their cooldown
\* are the ones the cycle started from.  Outside a cycle nothing writes
\* last_seen_times.
C16_CycleFrame ==
    [][/\ snap # NoSnap =>
             \A e \in Tracked :
                 IF InBatch(e) /\ clock - snap.lst[e] > COOLDOWN
                 THEN last_seen_times[e] \in {snap.lst[e], clock}
                      /\ (last_seen_times[e] = clock => clock \in FiredTimes(e))
                 ELSE last_seen_times[e] = snap.lst[e] /\ clock \notin FiredTimes(e)
       /\ (snap = NoSnap \/ snap' = NoSnap) => UNCHANGED last_seen_times]_vars

\* A cycle is through a batch with a row of an aircraft that fired and a row
\* of another that is inside its cooldown and kept its entry.
C16_Witness ==
    /\ pc = "row" /\ rows = <<>>
    /\ \E e1, e2 \in Tracked :
          /\ e1 # e2 /\ InBatch(e1) /\ InBatch(e2)
          /\ last_seen_times[e1] = clock
          /\ snap.lst[e2] # 0 /\ clock - snap.lst[e2] <= COOLDOWN
          /\ last_seen_times[e2] = snap.lst[e2]

\* C17 (fixed tracked set): the keys of last_seen_times are at all times the
\* keys it has at the start of the process, which are the keys of
\* icao_to_reg; a row whose identifier is not one of them fires no alert,
\* starts no fanout, sends no message and adds no entry.
C17_FixedTrackedSet ==
    /\ DOMAIN last_seen_times = DOMAIN InitLastSeen
    /\ DOMAIN last_seen_times = DOMAIN icao_to_reg
    /\ last.fired => last.icao \in DOMAIN InitLastSeen
    /\ pc \in {"guild", "sending", "commit"} => Alerted \in DOMAIN InitLastSeen
    /\ \A i \in 1..Len(delivered) : delivered[i][3].icao \in DOMAIN InitLastSeen

\* The cycle evaluated a row of an aircraft that is not tracked and went on
\* to the next row.
C17_Witness ==
    /\ pc = "row"
    /\ last.icao \notin DOMAIN InitLastSeen \cup {None}
    /\ ~last.fired
    /\ delivered = <<>>

\* C18 (null payload): a tick whose two requests return 200 with a JSON
\* object, the telemetry object having no "states" or a null one, ends as a
\* cycle without observations: no alert, no message, no write of
\* last_seen_times or of the registry, and the loop stays running and idle
\* for the next tick.
C18_NullPayload ==
    [][\A t \in Times, tok \in Tokens :
          Tick(t, HTTP_OK, "object", tok, HTTP_OK, "object", NullPayload)
          => /\ outcome'.result = "no_states"
             /\ pc' = "idle" /\ loop' = "running" /\ rows' = <<>>
             /\ UNCHANGED <<last_seen_times, firedAt, delivered, fan, channel_config,
                            disk>>]_vars

\* A cycle with a null payload ended, after a cycle that had an alert.
C18_Witness ==
    /\ outcome.result = "no_states" /\ outcome.api = HTTP_OK
    /\ pc = "idle" /\ loop = "running"
    /\ \E e \in Tracked : firedAt[e] # <<>>

C20_FanoutUnderRegistration ==
    [][/\ \A g \in Tenants :
             /\ fan'[g] # fan[g] =>
                   \/ pc = "guild" /\ fan[g] = "pending" /\ g = GuildOrder[gi]
                   \/ pc = "sending" /\ fan[g] = "sending" /\ g = GuildOrder[gi]
                         /\ fan'[g] \in {"send_ok", "send_raised"}
                   \/ pc = "commit" /\ fan' = PendingFan
             /\ (fan'[g] = "sending" /\ fan[g] # "sending") =>
                   (g \in DOMAIN channel_config /\ target' = channel_config[g])
             /\ (fan'[g] = "unset" /\ fan[g] # "unset") => g \notin DOMAIN channel_config
             /\ Cardinality({i \in 1..Len(delivered') : delivered'[i][1] = g})
                   = IF fan'[g] = "send_ok" THEN 1 ELSE 0
       /\ delivered' # delivered =>
             \/ pc = "commit" /\ delivered' = <<>>
             \/ pc = "sending"
                   /\ delivered' = Append(delivered, <<GuildOrder[gi], target, Message(Alerted)>>)
                   /\ target \in ChannelsOf[GuildOrder[gi]]]_vars

\* The fanout returned: the first guild had no entry at its turn, got
\* nothing and was registered afterwards; the second guild got the message
\* in the channel that was its entry when the send started, and has another
\* entry now.
C20_Witness ==
    /\ pc = "commit"
    /\ fan["g1"] = "unset" /\ "g1" \in DOMAIN channel_config
    /\ DeliveredTo("g1") = {}
    /\ \E i \in DeliveredTo("g2") :
          "g2" \in DOMAIN channel_config /\ delivered[i][2] # channel_config["g2"]

====
